---- MODULE Spec2Model ----
(***************************************************************************)
(* Relay pipeline of relayer.py: POST /api/lecturas parses a sensor        *)
(* reading, uploads it to Pinata (best effort), then builds, signs and     *)
(* broadcasts a storeReading(...) transaction and waits for its receipt.   *)
(*                                                                         *)
(* Each request is one execution of recibir_lectura.  The handler is an    *)
(* "async def" whose only await is req.json(); everything after it is      *)
(* blocking code, so on one event loop a handler runs from its parsing to  *)
(* its return without another handler in between.  Handlers served by      *)
(* different worker processes interleave freely: the module holds no lock, *)
(* and the processes share the signing account.                            *)
(***************************************************************************)
EXTENDS Integers, Sequences, FiniteSets, TLC

VARIABLES
    RPC_URL, PRIVATE_KEY, CONTRACT_ADDRESS,   \* the environment read at import
    boot,           \* the module's initialization: "import", "serving" or "failed"
    healthResp,     \* the last answer of GET /
    PINATA_JWT,     \* the archive token, read once from the environment
    pc,             \* per request: position in recibir_lectura
    loop,           \* per worker: the request whose handler occupies the event loop
    data,           \* per request: the parsed JSON payload
    device_id, temp_times10, hum_times10, timestamp_ms,   \* locals of the handler
    archResp,       \* per request: what the archive service answered
    cid,            \* per request: local cid (line 117)
    nonce,          \* per request: local nonce (line 120)
    tx,             \* per request: the built (and then signed) transaction
    tx_hash,        \* per request: hash returned by send_raw_transaction
    polls,          \* per request: receipt polls made by wait_for_transaction_receipt
    result,         \* per request: the returned JSON, or the raised error
    calls,          \* per request: outbound network calls made so far, in order
    chainCount,     \* node: the account's transaction count at block "latest"
    mempool,        \* node: the account's pending transaction, if any
    receipts,       \* node: receipts of the mined transactions
    broadcastLog    \* node: transactions accepted by send_raw_transaction, in order

vars == <<RPC_URL, PRIVATE_KEY, CONTRACT_ADDRESS, boot, healthResp,
          PINATA_JWT, pc, loop, data, device_id, temp_times10, hum_times10,
          timestamp_ms, archResp, cid, nonce, tx, tx_hash, polls, result, calls,
          chainCount, mempool, receipts, broadcastLog>>

process == <<RPC_URL, PRIVATE_KEY, CONTRACT_ADDRESS, boot, healthResp, PINATA_JWT>>
locals == <<device_id, temp_times10, hum_times10, timestamp_ms>>
node == <<chainCount, mempool, receipts, broadcastLog>>

----------------------------------------------------------------------------
(* Bounds *)

\* wait_for_transaction_receipt polls every 0.1 s for 120 s; the model gives up
\* after MaxPolls unanswered polls.
MaxPolls == 2

Reqs == {"r1", "r2"}
Workers == {"w1", "w2"}
NoReq == "none"

----------------------------------------------------------------------------
(* Python values.  A string is a tuple of tokens, so that "" is <<>>. *)

None == [t |-> "none", v |-> <<>>]
Absent == [t |-> "absent", v |-> <<>>]
Str(s) == [t |-> "str", v |-> s]
Num(n) == [t |-> "num", v |-> <<n>>]

\* Python truthiness of the values the model uses
Truthy(x) ==
    CASE x.t = "none" -> FALSE
      [] x.t = "str" -> x.v # <<>>
      [] x.t = "num" -> x.v # <<0>>
      [] OTHER -> FALSE

\* x or ""
OrEmpty(x) == IF Truthy(x) THEN x ELSE Str(<<>>)

----------------------------------------------------------------------------
(* Program constants *)

CHAIN_ID == 11155111
GasLimit == 300000
DefaultDevice == Str(<<"unknown-device">>)

Int16Min == -32768
Int16Max == 32767
Uint16Max == 65535

----------------------------------------------------------------------------
(* Request payloads.  temperature and humidity are given in hundredths     *)
(* (2530 is 25.30), timestamp_ms in units.                                 *)

Reading(d, t, h, ts) == [device_id |-> d, temperature |-> t, humidity |-> h, timestamp_ms |-> ts]

Payloads ==
    { Reading(Str(<<"esp32-1">>), Num(2530), Num(7010), Num(1731)),
      Reading(Absent, Num(-1234), Num(7000), Num(0)),
      Reading(Str(<<"esp32-1">>), Absent, Num(7010), Num(1731)),
      Reading(Str(<<"esp32-1">>), Num(2530), Absent, Num(1731)),
      Reading(Str(<<"esp32-1">>), Num(2530), Num(7010), Absent),
      Reading(Str(<<"esp32-1">>), Str(<<"abc">>), Num(7010), Num(1731)),
      Reading(Str(<<"esp32-1">>), Num(327680), Num(7010), Num(1731)),
      Reading(Str(<<"esp32-1">>), Num(2530), Num(-10), Num(1731)),
      Reading(Str(<<"esp32-1">>), Num(2530), Num(7010), Num(-1)) }

\* data.get(key, default)
Get(d, default) == IF d.t = "absent" THEN default ELSE d

\* data[key] then float(...) / int(...): KeyError when absent, ValueError when
\* the value is not numeric
Coercible(x) == x.t = "num"

\* Variant: a tie is rounded up, as floor(x * 10 + 0.5) would
Times10_halfup(h) == (h + 5) \div 10

\* int(round(x * 10)) for x given in hundredths: Python 3 rounds half to even
Times10(h) ==
    LET q == h \div 10
        rem == h % 10
    IN IF rem < 5 THEN q
       ELSE IF rem > 5 THEN q + 1
       ELSE IF q % 2 = 0 THEN q ELSE q + 1

----------------------------------------------------------------------------
(* storeReading(string, int16, uint16, uint256, string): the arguments web3 *)
(* accepts for the ABI of lines 18-32                                       *)

AbiEncodable(dev, t10, h10, ts, c) ==
    /\ dev.t = "str"
    /\ t10 >= Int16Min /\ t10 <= Int16Max
    /\ h10 >= 0 /\ h10 <= Uint16Max
    /\ ts >= 0
    /\ c.t = "str"

----------------------------------------------------------------------------
(* Archive service *)

ArchiveResponses == {"error", "nohash", "hash", "badhash"}

\* Variant: the token is not looked at before the request is sent
ArchiveOutcomes_unguarded(jwt) == ArchiveResponses

\* lines 67-69: without a token no request is sent
ArchiveOutcomes(jwt) == IF jwt = "" THEN {"skipped"} ELSE ArchiveResponses

\* The content identifier the service assigns to a document
CidOf(payload) == Str(<<"Qm", payload>>)

\* Return value of subir_a_pinata, given what the service did ("skipped" when
\* no request was sent)
subir_a_pinata(payload, resp) ==
    CASE resp = "skipped" -> None
      [] resp = "error" -> None               \* except Exception: return None
      [] resp = "nohash" -> None              \* res.get("IpfsHash") is None
      [] resp = "hash" -> CidOf(payload)
      [] resp = "badhash" -> Num(123)         \* "IpfsHash" is not a string

pinata_payload(r) ==
    [device_id |-> device_id[r], temperature_c |-> data[r].temperature,
     humidity_percent |-> data[r].humidity, timestamp_ms |-> timestamp_ms[r]]

----------------------------------------------------------------------------
(* Ledger node *)

GasPrices == {1, 2}

\* contract.functions.storeReading(...).build_transaction({...}), lines 122-132
Transaction(dev, t10, h10, ts, c, n, price) ==
    [deviceId |-> dev, temperatureTimes10 |-> t10, humidityTimes10 |-> h10,
     timestampMs |-> ts, cid |-> c, nonce |-> n, gas |-> GasLimit,
     gasPrice |-> price, chainId |-> CHAIN_ID]

NoTx == Transaction(None, 0, 0, 0, None, -1, 0)

\* The node's answer to send_raw_transaction(t) when it is reachable and the
\* account can pay: one transaction per nonce, a pending one is replaced only
\* by a better paying one
NodeVerdict(t) ==
    IF t.nonce < chainCount THEN "NonceTooLow"
    ELSE IF mempool = {} THEN "accepted"
    ELSE IF t \in mempool THEN "AlreadyKnown"
    ELSE IF \A old \in mempool : t.gasPrice > old.gasPrice THEN "accepted"
    ELSE "Underpriced"

----------------------------------------------------------------------------
\* os.getenv(...) of a variable: unset, or set to a usable value
EnvValues == {"unset", "set"}

NoResponse == [status |-> "none"]

Init ==
    /\ RPC_URL \in EnvValues
    /\ PRIVATE_KEY \in EnvValues
    /\ CONTRACT_ADDRESS \in EnvValues
    /\ boot = "import"
    /\ healthResp = NoResponse
    /\ PINATA_JWT \in {"", "jwt"}
    /\ pc = [r \in Reqs |-> "idle"]
    /\ loop = [w \in Workers |-> NoReq]
    /\ data = [r \in Reqs |-> Reading(Absent, Absent, Absent, Absent)]
    /\ device_id = [r \in Reqs |-> None]
    /\ temp_times10 = [r \in Reqs |-> 0]
    /\ hum_times10 = [r \in Reqs |-> 0]
    /\ timestamp_ms = [r \in Reqs |-> 0]
    /\ archResp = [r \in Reqs |-> "notyet"]
    /\ cid = [r \in Reqs |-> None]
    /\ nonce = [r \in Reqs |-> -1]
    /\ tx = [r \in Reqs |-> NoTx]
    /\ tx_hash = [r \in Reqs |-> NoTx]
    /\ polls = [r \in Reqs |-> 0]
    /\ result = [r \in Reqs |-> NoResponse]
    /\ calls = [r \in Reqs |-> <<>>]
    /\ chainCount = 0
    /\ mempool = {}
    /\ receipts = {}
    /\ broadcastLog = <<>>

\* The handler of r occupies an event loop
Running(r) == \E w \in Workers : loop[w] = r

\* An exception leaves the handler: the request fails and frees its loop
Raise(r, kind) ==
    /\ pc' = [pc EXCEPT ![r] = "error"]
    /\ result' = [result EXCEPT ![r] = [status |-> "error", error |-> kind]]
    /\ loop' = [w \in Workers |-> IF loop[w] = r THEN NoReq ELSE loop[w]]

\* Variant: the variables are not checked, only the connection is
Startup_unchecked ==
    /\ boot = "import"
    /\ \E connected \in BOOLEAN :
         boot' = IF connected THEN "serving" ELSE "failed"
    /\ UNCHANGED <<RPC_URL, PRIVATE_KEY, CONTRACT_ADDRESS, healthResp, PINATA_JWT,
                   pc, loop, data, locals, archResp, cid, nonce, tx, tx_hash, polls,
                   result, calls, node>>

\* lines 12-54, run when the module is imported: to_checksum_address raises
\* on a missing CONTRACT_ADDRESS, line 43 raises on a missing variable, line
\* 48 raises when the node does not answer; otherwise the app is served
Startup ==
    /\ boot = "import"
    /\ \E connected \in BOOLEAN :
         boot' = IF /\ CONTRACT_ADDRESS = "set"
                    /\ RPC_URL = "set" /\ PRIVATE_KEY = "set"
                    /\ connected
                 THEN "serving" ELSE "failed"
    /\ UNCHANGED <<RPC_URL, PRIVATE_KEY, CONTRACT_ADDRESS, healthResp, PINATA_JWT,
                   pc, loop, data, locals, archResp, cid, nonce, tx, tx_hash, polls,
                   result, calls, node>>

\* Variant: the health check probes the node and stops serving when the node
\* does not answer
root_probe(w) ==
    /\ boot = "serving"
    /\ loop[w] = NoReq
    /\ healthResp' = [status |-> "ok", message |-> "Relayer funcionando"]
    /\ \E connected \in BOOLEAN : boot' = IF connected THEN "serving" ELSE "failed"
    /\ UNCHANGED <<RPC_URL, PRIVATE_KEY, CONTRACT_ADDRESS, PINATA_JWT,
                   pc, loop, data, locals, archResp, cid, nonce, tx, tx_hash, polls,
                   result, calls, node>>

\* lines 57-59: GET / answered by a worker whose loop is free
root(w) ==
    /\ boot = "serving"
    /\ loop[w] = NoReq
    /\ healthResp' = [status |-> "ok", message |-> "Relayer funcionando"]
    /\ UNCHANGED <<RPC_URL, PRIVATE_KEY, CONTRACT_ADDRESS, boot, PINATA_JWT,
                   pc, loop, data, locals, archResp, cid, nonce, tx, tx_hash, polls,
                   result, calls, node>>

\* line 98: the body of a request arrives at a worker whose loop is free
Receive(r, w, p) ==
    /\ boot = "serving"
    /\ pc[r] = "idle"
    /\ loop[w] = NoReq
    /\ loop' = [loop EXCEPT ![w] = r]
    /\ data' = [data EXCEPT ![r] = p]
    /\ pc' = [pc EXCEPT ![r] = "parse"]
    /\ UNCHANGED <<process, locals, archResp, cid, nonce, tx, tx_hash, polls,
                   result, calls, node>>

\* Variant: the fields are read with data.get(key, 0), so a missing field
\* counts as 0 and a non-numeric one is taken as 0 too
ParseReading_defaults(r) ==
    /\ pc[r] = "parse"
    /\ LET d == data[r]
           F(x) == IF Coercible(x) THEN x.v[1] ELSE 0
       IN /\ device_id' = [device_id EXCEPT ![r] = Get(d.device_id, DefaultDevice)]
          /\ timestamp_ms' = [timestamp_ms EXCEPT ![r] = F(d.timestamp_ms)]
          /\ temp_times10' = [temp_times10 EXCEPT ![r] = Times10(F(d.temperature))]
          /\ hum_times10' = [hum_times10 EXCEPT ![r] = Times10(F(d.humidity))]
          /\ pc' = [pc EXCEPT ![r] = "archive"]
          /\ UNCHANGED <<result, loop>>
    /\ UNCHANGED <<process, data, archResp, cid, nonce, tx, tx_hash, polls, calls, node>>

\* lines 101-108
ParseReading(r) ==
    /\ pc[r] = "parse"
    /\ LET d == data[r] IN
       IF Coercible(d.temperature) /\ Coercible(d.humidity) /\ Coercible(d.timestamp_ms)
       THEN /\ device_id' = [device_id EXCEPT ![r] = Get(d.device_id, DefaultDevice)]
            /\ timestamp_ms' = [timestamp_ms EXCEPT ![r] = d.timestamp_ms.v[1]]
            /\ temp_times10' = [temp_times10 EXCEPT ![r] = Times10(d.temperature.v[1])]
            /\ hum_times10' = [hum_times10 EXCEPT ![r] = Times10(d.humidity.v[1])]
            /\ pc' = [pc EXCEPT ![r] = "archive"]
            /\ UNCHANGED <<result, loop>>
       ELSE /\ Raise(r, "ValidationError")
            /\ UNCHANGED locals
    /\ UNCHANGED <<process, data, archResp, cid, nonce, tx, tx_hash, polls, calls, node>>

\* Variant: a failed upload is tried again
Archive_retry(r) ==
    /\ pc[r] = "archive"
    /\ \E resp \in ArchiveOutcomes(PINATA_JWT) :
        /\ archResp' = [archResp EXCEPT ![r] = resp]
        /\ cid' = [cid EXCEPT ![r] = OrEmpty(subir_a_pinata(pinata_payload(r), resp))]
        /\ calls' = [calls EXCEPT ![r] =
                        IF resp = "skipped" THEN @ ELSE Append(@, "http_post")]
        /\ pc' = [pc EXCEPT ![r] =
                     IF resp = "error" /\ archResp[r] = "notyet" THEN "archive" ELSE "nonce"]
    /\ UNCHANGED <<process, loop, data, locals, nonce, tx, tx_hash, polls, result, node>>

\* lines 110-117, with subir_a_pinata (lines 62-84)
Archive(r) ==
    /\ pc[r] = "archive"
    /\ \E resp \in ArchiveOutcomes(PINATA_JWT) :
        /\ archResp' = [archResp EXCEPT ![r] = resp]
        /\ cid' = [cid EXCEPT ![r] = OrEmpty(subir_a_pinata(pinata_payload(r), resp))]
        /\ calls' = [calls EXCEPT ![r] =
                        IF resp = "skipped" THEN @ ELSE Append(@, "http_post")]
    /\ pc' = [pc EXCEPT ![r] = "nonce"]
    /\ UNCHANGED <<process, loop, data, locals, nonce, tx, tx_hash, polls, result, node>>

\* Variant: the nonce is queried without waiting for the archive step
get_transaction_count_early(r) ==
    /\ pc[r] \in {"archive", "nonce"}
    /\ calls' = [calls EXCEPT ![r] = Append(@, "get_transaction_count")]
    /\ \/ /\ nonce' = [nonce EXCEPT ![r] = chainCount]
          /\ pc' = [pc EXCEPT ![r] = "build"]
          /\ UNCHANGED <<result, loop>>
       \/ /\ Raise(r, "RpcUnavailable")
          /\ UNCHANGED nonce
    /\ UNCHANGED <<process, data, locals, archResp, cid, tx, tx_hash, polls, node>>

\* Variant: the module remembers the last nonce it handed out and continues
\* from it, asking the chain only for the first request
get_transaction_count_cached(r) ==
    /\ pc[r] = "nonce"
    /\ calls' = [calls EXCEPT ![r] = Append(@, "get_transaction_count")]
    /\ \/ /\ LET used == {nonce[o] : o \in Reqs} \ {-1}
             IN nonce' = [nonce EXCEPT ![r] =
                             IF used = {} THEN chainCount
                             ELSE 1 + CHOOSE n \in used : \A m \in used : m <= n]
          /\ pc' = [pc EXCEPT ![r] = "build"]
          /\ UNCHANGED <<result, loop>>
       \/ /\ Raise(r, "RpcUnavailable")
          /\ UNCHANGED nonce
    /\ UNCHANGED <<process, data, locals, archResp, cid, tx, tx_hash, polls, node>>

\* line 120: w3.eth.get_transaction_count(account.address)
get_transaction_count(r) ==
    /\ pc[r] = "nonce"
    /\ calls' = [calls EXCEPT ![r] = Append(@, "get_transaction_count")]
    /\ \/ /\ nonce' = [nonce EXCEPT ![r] = chainCount]
          /\ pc' = [pc EXCEPT ![r] = "build"]
          /\ UNCHANGED <<result, loop>>
       \/ /\ Raise(r, "RpcUnavailable")
          /\ UNCHANGED nonce
    /\ UNCHANGED <<process, data, locals, archResp, cid, tx, tx_hash, polls, node>>

\* Variant: the reading is kept in module-level variables that the handlers
\* share, so the call takes the arguments of whichever request parsed last
build_transaction_shared(r) ==
    /\ pc[r] = "build"
    /\ IF AbiEncodable(device_id[r], temp_times10[r], hum_times10[r], timestamp_ms[r], cid[r])
       THEN /\ calls' = [calls EXCEPT ![r] = Append(@, "gas_price")]
            /\ \/ \E price \in GasPrices :
                 \E o \in {q \in Reqs : pc[q] \notin {"idle", "parse"}} :
                    /\ tx' = [tx EXCEPT ![r] =
                                 Transaction(device_id[o], temp_times10[o], hum_times10[o],
                                             timestamp_ms[o], cid[r], nonce[r], price)]
                    /\ pc' = [pc EXCEPT ![r] = "sign"]
                    /\ UNCHANGED <<result, loop>>
               \/ /\ Raise(r, "RpcUnavailable")
                  /\ UNCHANGED tx
       ELSE /\ Raise(r, "AbiValidationError")
            /\ UNCHANGED <<tx, calls>>
    /\ UNCHANGED <<process, data, locals, archResp, cid, nonce, tx_hash, polls, node>>

\* lines 122-132: storeReading(...) checks the arguments against the ABI, the
\* options dictionary reads w3.eth.gas_price, build_transaction fills the rest
build_transaction(r) ==
    /\ pc[r] = "build"
    /\ IF AbiEncodable(device_id[r], temp_times10[r], hum_times10[r], timestamp_ms[r], cid[r])
       THEN /\ calls' = [calls EXCEPT ![r] = Append(@, "gas_price")]
            /\ \/ \E price \in GasPrices :
                    /\ tx' = [tx EXCEPT ![r] =
                                 Transaction(device_id[r], temp_times10[r], hum_times10[r],
                                             timestamp_ms[r], cid[r], nonce[r], price)]
                    /\ pc' = [pc EXCEPT ![r] = "sign"]
                    /\ UNCHANGED <<result, loop>>
               \/ /\ Raise(r, "RpcUnavailable")
                  /\ UNCHANGED tx
       ELSE /\ Raise(r, "AbiValidationError")
            /\ UNCHANGED <<tx, calls>>
    /\ UNCHANGED <<process, data, locals, archResp, cid, nonce, tx_hash, polls, node>>

\* line 134: signing is local and keeps the transaction's content
sign_transaction(r) ==
    /\ pc[r] = "sign"
    /\ pc' = [pc EXCEPT ![r] = "send"]
    /\ UNCHANGED <<process, loop, data, locals, archResp, cid, nonce, tx, tx_hash,
                   polls, result, calls, node>>

\* Variant: a refused broadcast is caught and answered as ok with the cid alone
send_raw_transaction_partial(r) ==
    /\ pc[r] = "send"
    /\ calls' = [calls EXCEPT ![r] = Append(@, "send_raw_transaction")]
    /\ \/ /\ NodeVerdict(tx[r]) = "accepted"
          /\ mempool' = {tx[r]}
          /\ broadcastLog' = Append(broadcastLog, [req |-> r, tx |-> tx[r]])
          /\ tx_hash' = [tx_hash EXCEPT ![r] = tx[r]]
          /\ pc' = [pc EXCEPT ![r] = "wait"]
          /\ UNCHANGED <<result, loop>>
       \/ /\ NodeVerdict(tx[r]) # "accepted"
          /\ pc' = [pc EXCEPT ![r] = "ok"]
          /\ result' = [result EXCEPT ![r] = [status |-> "ok", cid |-> cid[r]]]
          /\ loop' = [w \in Workers |-> IF loop[w] = r THEN NoReq ELSE loop[w]]
          /\ UNCHANGED <<mempool, broadcastLog, tx_hash>>
       \/ \E kind \in {"RpcUnavailable", "InsufficientFunds"} :
            /\ Raise(r, kind)
            /\ UNCHANGED <<mempool, broadcastLog, tx_hash>>
    /\ UNCHANGED <<process, data, locals, archResp, cid, nonce, tx, polls,
                   chainCount, receipts>>

\* Variant: a broadcast refused with "nonce too low" is retried from the nonce
\* query
send_raw_transaction_retry(r) ==
    /\ pc[r] = "send"
    /\ calls' = [calls EXCEPT ![r] = Append(@, "send_raw_transaction")]
    /\ \/ /\ NodeVerdict(tx[r]) = "accepted"
          /\ mempool' = {tx[r]}
          /\ broadcastLog' = Append(broadcastLog, [req |-> r, tx |-> tx[r]])
          /\ tx_hash' = [tx_hash EXCEPT ![r] = tx[r]]
          /\ pc' = [pc EXCEPT ![r] = "wait"]
          /\ UNCHANGED <<result, loop>>
       \/ /\ NodeVerdict(tx[r]) = "NonceTooLow"
          /\ pc' = [pc EXCEPT ![r] = "nonce"]
          /\ UNCHANGED <<result, loop, mempool, broadcastLog, tx_hash>>
       \/ /\ NodeVerdict(tx[r]) \notin {"accepted", "NonceTooLow"}
          /\ Raise(r, NodeVerdict(tx[r]))
          /\ UNCHANGED <<mempool, broadcastLog, tx_hash>>
       \/ \E kind \in {"RpcUnavailable", "InsufficientFunds"} :
            /\ Raise(r, kind)
            /\ UNCHANGED <<mempool, broadcastLog, tx_hash>>
    /\ UNCHANGED <<process, data, locals, archResp, cid, nonce, tx, polls,
                   chainCount, receipts>>

\* line 137: w3.eth.send_raw_transaction(signed_tx.raw_transaction)
send_raw_transaction(r) ==
    /\ pc[r] = "send"
    /\ calls' = [calls EXCEPT ![r] = Append(@, "send_raw_transaction")]
    /\ \/ /\ NodeVerdict(tx[r]) = "accepted"
          /\ mempool' = {tx[r]}
          /\ broadcastLog' = Append(broadcastLog, [req |-> r, tx |-> tx[r]])
          /\ tx_hash' = [tx_hash EXCEPT ![r] = tx[r]]
          /\ pc' = [pc EXCEPT ![r] = "wait"]
          /\ UNCHANGED <<result, loop>>
       \/ /\ NodeVerdict(tx[r]) # "accepted"
          /\ Raise(r, NodeVerdict(tx[r]))
          /\ UNCHANGED <<mempool, broadcastLog, tx_hash>>
       \/ \E kind \in {"RpcUnavailable", "InsufficientFunds"} :
            /\ Raise(r, kind)
            /\ UNCHANGED <<mempool, broadcastLog, tx_hash>>
    /\ UNCHANGED <<process, data, locals, archResp, cid, nonce, tx, polls,
                   chainCount, receipts>>

ReceiptOf(h) == {rc \in receipts : rc.transactionHash = h}

\* Variant: the wait has no timeout; once the polls are used up the handler
\* keeps waiting for the receipt
wait_for_transaction_receipt_unbounded(r) ==
    /\ pc[r] = "wait"
    /\ \/ \E rc \in ReceiptOf(tx_hash[r]) :
            /\ result' = [result EXCEPT ![r] =
                             [status |-> "ok", tx_hash |-> tx_hash[r],
                              block |-> rc.blockNumber, cid |-> cid[r]]]
            /\ pc' = [pc EXCEPT ![r] = "ok"]
            /\ loop' = [w \in Workers |-> IF loop[w] = r THEN NoReq ELSE loop[w]]
            /\ UNCHANGED polls
       \/ /\ ReceiptOf(tx_hash[r]) = {}
          /\ polls[r] < MaxPolls
          /\ polls' = [polls EXCEPT ![r] = @ + 1]
          /\ UNCHANGED <<pc, result, loop>>
    /\ UNCHANGED <<process, data, locals, archResp, cid, nonce, tx, tx_hash, calls, node>>

\* Variant: when the wait times out the handler answers ok all the same, with
\* the latest block
wait_for_transaction_receipt_lenient(r) ==
    /\ pc[r] = "wait"
    /\ \/ \E rc \in ReceiptOf(tx_hash[r]) :
            /\ result' = [result EXCEPT ![r] =
                             [status |-> "ok", tx_hash |-> tx_hash[r],
                              block |-> rc.blockNumber, cid |-> cid[r]]]
            /\ pc' = [pc EXCEPT ![r] = "ok"]
            /\ loop' = [w \in Workers |-> IF loop[w] = r THEN NoReq ELSE loop[w]]
            /\ UNCHANGED polls
       \/ /\ ReceiptOf(tx_hash[r]) = {}
          /\ polls[r] < MaxPolls
          /\ polls' = [polls EXCEPT ![r] = @ + 1]
          /\ UNCHANGED <<pc, result, loop>>
       \/ /\ ReceiptOf(tx_hash[r]) = {}
          /\ polls[r] >= MaxPolls
          /\ result' = [result EXCEPT ![r] =
                           [status |-> "ok", tx_hash |-> tx_hash[r],
                            block |-> chainCount, cid |-> cid[r]]]
          /\ pc' = [pc EXCEPT ![r] = "ok"]
          /\ loop' = [w \in Workers |-> IF loop[w] = r THEN NoReq ELSE loop[w]]
          /\ UNCHANGED polls
    /\ UNCHANGED <<process, data, locals, archResp, cid, nonce, tx, tx_hash, calls, node>>

\* Variant: the handler looks at the receipt's status and answers ok only for
\* status 1
wait_for_transaction_receipt_checked(r) ==
    /\ pc[r] = "wait"
    /\ \/ \E rc \in ReceiptOf(tx_hash[r]) :
            IF rc.status = 1
            THEN /\ result' = [result EXCEPT ![r] =
                                  [status |-> "ok", tx_hash |-> tx_hash[r],
                                   block |-> rc.blockNumber, cid |-> cid[r]]]
                 /\ pc' = [pc EXCEPT ![r] = "ok"]
                 /\ loop' = [w \in Workers |-> IF loop[w] = r THEN NoReq ELSE loop[w]]
                 /\ UNCHANGED polls
            ELSE /\ Raise(r, "Reverted")
                 /\ UNCHANGED polls
       \/ /\ ReceiptOf(tx_hash[r]) = {}
          /\ polls[r] < MaxPolls
          /\ polls' = [polls EXCEPT ![r] = @ + 1]
          /\ UNCHANGED <<pc, result, loop>>
       \/ /\ ReceiptOf(tx_hash[r]) = {}
          /\ polls[r] >= MaxPolls
          /\ Raise(r, "ConfirmationTimeout")
          /\ UNCHANGED polls
    /\ UNCHANGED <<process, data, locals, archResp, cid, nonce, tx, tx_hash, calls, node>>

\* lines 140-148: wait_for_transaction_receipt polls until the receipt exists
\* or the timeout has elapsed (TimeExhausted); with the receipt the handler
\* returns its JSON
wait_for_transaction_receipt(r) ==
    /\ pc[r] = "wait"
    /\ \/ \E rc \in ReceiptOf(tx_hash[r]) :
            /\ result' = [result EXCEPT ![r] =
                             [status |-> "ok", tx_hash |-> tx_hash[r],
                              block |-> rc.blockNumber, cid |-> cid[r]]]
            /\ pc' = [pc EXCEPT ![r] = "ok"]
            /\ loop' = [w \in Workers |-> IF loop[w] = r THEN NoReq ELSE loop[w]]
            /\ UNCHANGED polls
       \/ /\ ReceiptOf(tx_hash[r]) = {}
          /\ polls[r] < MaxPolls
          /\ polls' = [polls EXCEPT ![r] = @ + 1]
          /\ UNCHANGED <<pc, result, loop>>
       \/ /\ ReceiptOf(tx_hash[r]) = {}
          /\ polls[r] >= MaxPolls
          /\ Raise(r, "ConfirmationTimeout")
          /\ UNCHANGED polls
    /\ UNCHANGED <<process, data, locals, archResp, cid, nonce, tx, tx_hash, calls, node>>

\* line 140: a poll cannot reach the node; the error leaves the handler
ReceiptRpcFails(r) ==
    /\ pc[r] = "wait"
    /\ Raise(r, "RpcUnavailable")
    /\ UNCHANGED <<process, data, locals, archResp, cid, nonce, tx, tx_hash, polls,
                   calls, node>>

\* The network mines the account's pending transaction; the call may revert
Mine ==
    /\ \E t \in mempool, st \in {0, 1} :
        receipts' = receipts \cup {[transactionHash |-> t,
                                    blockNumber |-> chainCount + 1, status |-> st]}
    /\ mempool' = {}
    /\ chainCount' = chainCount + 1
    /\ UNCHANGED <<process, pc, loop, data, locals, archResp, cid, nonce, tx, tx_hash,
                   polls, result, calls, broadcastLog>>

Next ==
    \/ \E r \in Reqs, w \in Workers, p \in Payloads : Receive(r, w, p)
    \/ \E r \in Reqs : ParseReading(r)
    \/ \E r \in Reqs : Archive(r)
    \/ \E r \in Reqs : get_transaction_count(r)
    \/ \E r \in Reqs : build_transaction(r)
    \/ \E r \in Reqs : sign_transaction(r)
    \/ \E r \in Reqs : send_raw_transaction(r)
    \/ \E r \in Reqs : wait_for_transaction_receipt(r)
    \/ \E r \in Reqs : ReceiptRpcFails(r)
    \/ Mine
    \/ Startup
    \/ \E w \in Workers : root(w)

Spec == Init /\ [][Next]_vars

\* A deployment without archive token (line 37: PINATA_JWT defaults to "")
InitNoToken == Init /\ PINATA_JWT = ""

\* Scaling alone (lines 102-108): readings whose temperature or humidity runs
\* over a range of hundredths, received and parsed
ScaleRange == 30

ScaleInputs == (-ScaleRange .. ScaleRange) \cup {2530, 2525, 2535, -1234, -1235, -1225}

ScalePayloads ==
    { Reading(Str(<<"esp32-1">>), Num(t), Num(7010), Num(1731)) : t \in ScaleInputs }
    \cup { Reading(Str(<<"esp32-1">>), Num(2530), Num(h), Num(1731)) : h \in 0 .. ScaleRange }

ScaleNext ==
    \/ Startup
    \/ \E r \in Reqs, w \in Workers : \E p \in ScalePayloads : Receive(r, w, p)
    \/ \E r \in Reqs : ParseReading(r)

ScaleSpec == Init /\ [][ScaleNext]_vars

\* The handler's polling loop is blocking code that runs until it returns or
\* raises: it is never suspended for ever.  Nothing is assumed of the node or
\* the network.  The confirmation wait does not read the archive's answer, so
\* it is examined in the deployment without token.
FairSpec ==
    /\ InitNoToken /\ [][Next]_vars
    /\ \A r \in Reqs : WF_vars(wait_for_transaction_receipt(r))
----------------------------------------------------------------------------
(* Vocabulary of the properties *)

LedgerCalls == {"get_transaction_count", "gas_price", "send_raw_transaction"}
NonceConflicts == {"NonceTooLow", "Underpriced", "AlreadyKnown"}
LedgerErrors == NonceConflicts \cup {"RpcUnavailable", "InsufficientFunds",
                                     "ConfirmationTimeout", "AbiValidationError"}

Count(seq, c) == Cardinality({i \in DOMAIN seq : seq[i] = c})
Made(r, c) == \E i \in DOMAIN calls[r] : calls[r][i] = c

\* The archive step of r has returned
Archived(r) == archResp[r] # "notyet"
\* What subir_a_pinata returned to r
Returned(r) == subir_a_pinata(pinata_payload(r), archResp[r])
\* r is in its ledger step or past it
InLedgerStep(r) ==
    \/ pc[r] \in {"build", "sign", "send", "wait", "ok"}
    \/ \E c \in LedgerCalls : Made(r, c)
    \/ tx[r] # NoTx
\* r was accepted by the node
Broadcast(r) == \E i \in DOMAIN broadcastLog : broadcastLog[i].req = r

----------------------------------------------------------------------------
\* C1: the archive step of a request has returned before anything of its
\* ledger step happens (nonce query, gas price query, build, sign, broadcast),
\* and the cid argument of the request's transaction is what the archive step
\* returned, the empty string standing for none.
C1_ArchiveBeforeLedger ==
    \A r \in Reqs :
        /\ InLedgerStep(r) => Archived(r)
        /\ tx[r] # NoTx =>
              tx[r].cid = (IF Returned(r) = None THEN Str(<<>>) ELSE Returned(r))
        /\ \A i \in DOMAIN broadcastLog :
              broadcastLog[i].req = r => broadcastLog[i].tx = tx[r]

\* A request with an archived document has broadcast its transaction
C1_Witness ==
    \E r \in Reqs : pc[r] = "wait" /\ archResp[r] = "hash" /\ Broadcast(r)

----------------------------------------------------------------------------
\* The archive service failed: transport error, timeout, HTTP error status or
\* a body that is not JSON ("error"), or a JSON body without a usable
\* IpfsHash string ("nohash", "badhash")
ArchiveFailures == {"error", "nohash", "badhash"}

\* A reading the contract call accepts when the cid is the empty string
ValidReading(r) ==
    AbiEncodable(device_id[r], temp_times10[r], hum_times10[r], timestamp_ms[r], Str(<<>>))

\* C2: whatever way the archive service fails, subir_a_pinata returns none,
\* the cid used downstream is the empty string, and the request goes on to
\* the ledger step: it is not stopped before its transaction is built.
C2_ArchiveFailureNeverBlocks ==
    \A r \in Reqs :
        archResp[r] \in ArchiveFailures =>
            /\ Returned(r) = None
            /\ cid[r] = Str(<<>>)
            /\ (ValidReading(r) /\ pc[r] = "error") =>
                   result[r].error # "AbiValidationError"

----------------------------------------------------------------------------
\* r has ended: its handler was started and no longer occupies a loop
Ended(r) == pc[r] # "idle" /\ ~Running(r)
\* r ran submit: it reached the nonce query
Submitted(r) == Made(r, "get_transaction_count")
\* Position of r's transaction in the order of broadcast (0: not broadcast)
BroadcastPos(r) ==
    IF Broadcast(r)
    THEN CHOOSE i \in DOMAIN broadcastLog : broadcastLog[i].req = r
    ELSE 0

\* C3 as stated: two requests with valid readings that both ran submit end
\* either as one success and one nonce conflict, or as two successes with
\* distinct nonces.
C3_OneSuccessOneConflictOrTwoSuccesses ==
    \A r1 \in Reqs : \A r2 \in Reqs \ {r1} :
        ( /\ Submitted(r1) /\ Submitted(r2)
          /\ ValidReading(r1) /\ ValidReading(r2)
          /\ archResp[r1] # "badhash" /\ archResp[r2] # "badhash"
          /\ Ended(r1) /\ Ended(r2) ) =>
            \/ /\ result[r1].status = "ok"
               /\ result[r2].status = "error" /\ result[r2].error \in NonceConflicts
            \/ /\ result[r2].status = "ok"
               /\ result[r1].status = "error" /\ result[r1].error \in NonceConflicts
            \/ /\ result[r1].status = "ok" /\ result[r2].status = "ok"
               /\ nonce[r1] # nonce[r2]

\* C3, amended: two requests never both succeed with the same nonce; two
\* successes carry distinct nonces that increase in the order of broadcast; a
\* success means the transaction of the request is mined under that nonce,
\* and every request that ended reports ok or an error.
C3_NoTwoSuccessesWithSameNonce ==
    /\ \A r1 \in Reqs : \A r2 \in Reqs \ {r1} :
          (result[r1].status = "ok" /\ result[r2].status = "ok") =>
              /\ result[r1].tx_hash.nonce # result[r2].tx_hash.nonce
              /\ BroadcastPos(r1) < BroadcastPos(r2) =>
                    result[r1].tx_hash.nonce < result[r2].tx_hash.nonce
    /\ \A r \in Reqs :
          /\ result[r].status = "ok" =>
                /\ result[r].tx_hash.nonce = nonce[r]
                /\ ReceiptOf(result[r].tx_hash) # {}
          /\ Ended(r) => result[r].status \in {"ok", "error"}

\* Two requests read the same nonce; one succeeded, the other was refused by
\* the node
C3_Witness ==
    \E r1 \in Reqs : \E r2 \in Reqs \ {r1} :
        /\ nonce[r1] = nonce[r2]
        /\ result[r1].status = "ok"
        /\ result[r2].status = "error" /\ result[r2].error \in NonceConflicts

----------------------------------------------------------------------------
\* C4: at most one request is between its nonce query and the completion of
\* its broadcast.
C4_NonceToBroadcastSerialized ==
    Cardinality({r \in Reqs : pc[r] \in {"build", "sign", "send"}}) <= 1

----------------------------------------------------------------------------
\* The payload of r lacks temperature, humidity or timestamp_ms, or carries a
\* value that is not a number
Malformed(r) ==
    /\ pc[r] # "idle"
    /\ \E f \in {data[r].temperature, data[r].humidity, data[r].timestamp_ms} :
          ~Coercible(f)

\* C5: a request whose payload lacks temperature, humidity or timestamp_ms,
\* or carries a non-numeric value, fails validation before any outbound call:
\* it made no archive HTTP call and no ledger RPC call, built and broadcast no
\* transaction, and its only outcome is the validation failure.
C5_ValidationBeforeAnyCall ==
    \A r \in Reqs :
        Malformed(r) =>
            /\ pc[r] \in {"parse", "error"}
            /\ calls[r] = <<>>
            /\ polls[r] = 0
            /\ tx[r] = NoTx /\ tx_hash[r] = NoTx /\ ~Broadcast(r)
            /\ archResp[r] = "notyet"
            /\ pc[r] = "error" =>
                  result[r] = [status |-> "error", error |-> "ValidationError"]

\* Requests failed validation for a missing field and for a non-numeric one
C5_Witness ==
    \E r1 \in Reqs : \E r2 \in Reqs :
        /\ pc[r1] = "error" /\ data[r1].humidity = Absent
        /\ pc[r2] = "error" /\ data[r2].temperature = Str(<<"abc">>)

----------------------------------------------------------------------------
\* The reading of r does not fit the fixed-point form: temp_scaled outside
\* int16, humidity_scaled outside uint16, or a negative timestamp_ms
OutOfRange(r) ==
    /\ pc[r] # "idle" /\ ~Malformed(r)
    /\ \/ Times10(data[r].temperature.v[1]) < Int16Min
       \/ Times10(data[r].temperature.v[1]) > Int16Max
       \/ Times10(data[r].humidity.v[1]) < 0
       \/ Times10(data[r].humidity.v[1]) > Uint16Max
       \/ data[r].timestamp_ms.v[1] < 0

\* C6: a reading that does not fit the fixed-point form is rejected before
\* any side effect: no archive upload and no ledger RPC call was made for it.
C6_RangeCheckBeforeSideEffects ==
    \A r \in Reqs :
        OutOfRange(r) =>
            /\ calls[r] = <<>>
            /\ archResp[r] \in {"notyet", "skipped"}

----------------------------------------------------------------------------
\* C7: with an empty PINATA_JWT no request is ever sent to the archive
\* service, subir_a_pinata returns none, the cid is the empty string, and the
\* request proceeds to the ledger step: after the archive step it is at the
\* nonce query or has made it.
C7_NoTokenSkipsArchive ==
    PINATA_JWT = "" =>
        \A r \in Reqs :
            /\ ~Made(r, "http_post")
            /\ Archived(r) =>
                  /\ archResp[r] = "skipped"
                  /\ Returned(r) = None
                  /\ cid[r] = Str(<<>>)
                  /\ pc[r] = "nonce" \/ Submitted(r)
            /\ tx[r] # NoTx => tx[r].cid = Str(<<>>)

\* Without a token a request broadcast its transaction
C7_Witness ==
    /\ PINATA_JWT = ""
    /\ \E r \in Reqs : pc[r] = "wait" /\ Broadcast(r) /\ tx_hash[r].cid = Str(<<>>)

----------------------------------------------------------------------------
\* C8: a request that waits for the receipt of a broadcast transaction does
\* not wait for ever.  The wait is bounded (never more than MaxPolls
\* unanswered polls), and the request leaves it with the receipt or with a
\* failure: ConfirmationTimeout when the transaction was not mined in time
\* (or the RPC error of a poll that could not reach the node).
C8_ConfirmationWaitBounded ==
    \A r \in Reqs :
        /\ [](polls[r] <= MaxPolls)
        /\ [](result[r].status = "error" /\ tx_hash[r] # NoTx =>
                 /\ result[r].error \in {"ConfirmationTimeout", "RpcUnavailable"}
                 /\ result[r].error = "ConfirmationTimeout" => polls[r] = MaxPolls)
        /\ (pc[r] = "wait") ~> (pc[r] = "ok" \/ pc[r] = "error")

\* A broadcast transaction was never mined and its request ended with
\* ConfirmationTimeout
C8_Witness ==
    \E r \in Reqs :
        /\ pc[r] = "error" /\ result[r].error = "ConfirmationTimeout"
        /\ Broadcast(r) /\ ReceiptOf(tx_hash[r]) = {}

----------------------------------------------------------------------------
\* C9: there is no partial success.  A request that ended reports ok or an
\* error; ok carries the complete payload {status, tx_hash, block, cid} and is
\* given only when the request's transaction was broadcast and a receipt
\* with that block number exists for its hash; a request whose ledger step
\* failed reports an error, also when its archive upload had succeeded.
C9_NoPartialSuccess ==
    \A r \in Reqs :
        /\ Ended(r) <=> result[r].status \in {"ok", "error"}
        /\ result[r].status = "ok" =>
              /\ DOMAIN result[r] = {"status", "tx_hash", "block", "cid"}
              /\ Made(r, "send_raw_transaction")
              /\ \E i \in DOMAIN broadcastLog :
                    broadcastLog[i] = [req |-> r, tx |-> result[r].tx_hash]
              /\ \E rc \in receipts :
                    /\ rc.transactionHash = result[r].tx_hash
                    /\ rc.blockNumber = result[r].block
              /\ result[r].cid = result[r].tx_hash.cid
        /\ (Ended(r) /\ ReceiptOf(tx_hash[r]) = {}) => result[r].status = "error"

\* The archive upload of a request succeeded and its ledger step failed
C9_Witness ==
    \E r \in Reqs :
        /\ archResp[r] = "hash" /\ cid[r] # Str(<<>>)
        /\ Submitted(r)
        /\ result[r].status = "error" /\ result[r].error \in LedgerErrors

----------------------------------------------------------------------------
\* C10: the ledger write is never retried.  A request queries the nonce at
\* most once and broadcasts at most once, and a request that failed makes no
\* further call: it stays failed.
C10_NoRetry ==
    /\ [](\A r \in Reqs :
            /\ Count(calls[r], "get_transaction_count") <= 1
            /\ Count(calls[r], "send_raw_transaction") <= 1
            /\ Cardinality({i \in DOMAIN broadcastLog : broadcastLog[i].req = r}) <= 1)
    /\ [][\A r \in Reqs :
            /\ pc[r] = "error" =>
                  pc'[r] = "error" /\ calls'[r] = calls[r] /\ result'[r] = result[r]
            /\ Made(r, "send_raw_transaction") =>
                  calls'[r] = calls[r] /\ nonce'[r] = nonce[r]]_vars

\* A request was refused by the node for its nonce, after one nonce query and
\* one broadcast
C10_Witness ==
    \E r \in Reqs :
        /\ result[r].status = "error" /\ result[r].error = "NonceTooLow"
        /\ calls[r][Len(calls[r])] = "send_raw_transaction"

----------------------------------------------------------------------------
\* C11: the confirmation wait of one request does not block other requests:
\* while a request waits for its receipt, every worker, the one that runs the
\* waiting handler included, can take up another request, which then goes on
\* to its nonce query and broadcast.
C11_WaitDoesNotBlockOthers ==
    \A r1 \in Reqs : \A r2 \in Reqs \ {r1} : \A w \in Workers :
        (pc[r1] = "wait" /\ pc[r2] = "idle") =>
            ENABLED (\E p \in Payloads : Receive(r2, w, p))

----------------------------------------------------------------------------
\* Nothing was done for any request: no handler ran, no call was made, the
\* node was not touched
NothingServed ==
    /\ \A r \in Reqs : pc[r] = "idle" /\ calls[r] = <<>> /\ result[r] = NoResponse
    /\ \A w \in Workers : loop[w] = NoReq
    /\ mempool = {} /\ receipts = {} /\ broadcastLog = <<>> /\ chainCount = 0
    /\ healthResp = NoResponse

\* C12: startup gates serving.  With RPC_URL, PRIVATE_KEY or CONTRACT_ADDRESS
\* unset, or with the node unreachable at boot, startup fails; a process that
\* is not serving has handled nothing, and a failed startup stays failed.
C12_StartupGatesServing ==
    /\ []((\E v \in {RPC_URL, PRIVATE_KEY, CONTRACT_ADDRESS} : v = "unset") =>
             boot \in {"import", "failed"})
    /\ [](boot # "serving" => NothingServed)
    /\ [][boot = "failed" => boot' = "failed"]_vars
    /\ [][boot = "import" /\ boot' = "serving" =>
             RPC_URL = "set" /\ PRIVATE_KEY = "set" /\ CONTRACT_ADDRESS = "set"]_vars

\* Startup failed for a missing private key
C12_Witness ==
    boot = "failed" /\ PRIVATE_KEY = "unset" /\ RPC_URL = "set" /\ CONTRACT_ADDRESS = "set"
----------------------------------------------------------------------------
\* Lines 102-108 ran for r and raised nothing
Parsed(r) ==
    /\ pc[r] \notin {"idle", "parse"}
    /\ Coercible(data[r].temperature) /\ Coercible(data[r].humidity)
    /\ Coercible(data[r].timestamp_ms)

\* s is the integer nearest to h / 10, an exact tie going to the even one
NearestTiesToEven(h, s) ==
    /\ 10 * s - h \in -5 .. 5
    /\ 10 * s - h \in {-5, 5} => s % 2 = 0

\* C13: scaling is deterministic and follows one rounding rule: the scaled
\* value is the integer nearest to ten times the input, an exact tie going to
\* the even integer for every input; 25.3 gives 253, -12.34 gives -123, 25.25
\* gives 252; two requests with the same input hold the same scaled value.
C13_ScalingPinned ==
    \A r \in Reqs : Parsed(r) =>
        LET t == data[r].temperature.v[1]
            h == data[r].humidity.v[1]
        IN /\ NearestTiesToEven(t, temp_times10[r])
           /\ NearestTiesToEven(h, hum_times10[r])
           /\ t = 2530 => temp_times10[r] = 253
           /\ t = -1234 => temp_times10[r] = -123
           /\ t = 2525 => temp_times10[r] = 252
           /\ \A r2 \in Reqs :
                (Parsed(r2) /\ data[r2].temperature = data[r].temperature) =>
                    temp_times10[r2] = temp_times10[r]

\* A tie and a negative reading have been scaled
C13_Witness ==
    \E r1 \in Reqs : \E r2 \in Reqs \ {r1} :
        /\ Parsed(r1) /\ data[r1].temperature = Num(2525) /\ temp_times10[r1] = 252
        /\ Parsed(r2) /\ data[r2].temperature = Num(-1234) /\ temp_times10[r2] = -123
----------------------------------------------------------------------------
\* C14: GET / has no side effects.  A step that produces the health response
\* produces {status ok, message} and changes nothing else: no call is logged,
\* nothing is broadcast, the account's state at the node and every request's
\* state stay as they are, whatever the requests are doing.
C14_HealthHasNoSideEffects ==
    [][healthResp' # healthResp =>
          /\ healthResp' = [status |-> "ok", message |-> "Relayer funcionando"]
          /\ UNCHANGED <<RPC_URL, PRIVATE_KEY, CONTRACT_ADDRESS, boot, PINATA_JWT,
                         pc, loop, data, locals, archResp, cid, nonce, tx, tx_hash,
                         polls, result, calls, node>>]_vars

\* The health response was given and a request is waiting for its receipt
\* with its transaction pending
C14_Witness ==
    /\ healthResp = [status |-> "ok", message |-> "Relayer funcionando"]
    /\ \E r \in Reqs : pc[r] = "wait" /\ tx_hash[r] \in mempool
----------------------------------------------------------------------------
\* r1 and r2 hold the same nonce and both called send_raw_transaction
SameNonceBothSent(r1, r2) ==
    /\ nonce[r1] >= 0 /\ nonce[r1] = nonce[r2]
    /\ Made(r1, "send_raw_transaction") /\ Made(r2, "send_raw_transaction")

Failed(r, kinds) == result[r].status = "error" /\ result[r].error \in kinds

\* C15 as stated: of two requests that hold the same nonce and both
\* broadcast, the node accepts one and the other fails with NonceTooLow
\* (failures of the RPC connection and of funds set aside).
C15_LoserFailsWithNonceTooLow ==
    \A r1 \in Reqs : \A r2 \in Reqs \ {r1} :
        ( /\ SameNonceBothSent(r1, r2)
          /\ Ended(r1) /\ Ended(r2)
          /\ ~Failed(r1, {"RpcUnavailable", "InsufficientFunds"})
          /\ ~Failed(r2, {"RpcUnavailable", "InsufficientFunds"}) ) =>
            \/ result[r1].status = "ok" /\ Failed(r2, {"NonceTooLow"})
            \/ result[r2].status = "ok" /\ Failed(r1, {"NonceTooLow"})

\* C15, amended: of two requests that hold the same nonce and both broadcast,
\* never both are answered ok; once both ended at least one has failed, with
\* a nonce conflict, a confirmation timeout or an RPC or funds error.  The
\* conflict is NonceTooLow only when a transaction with that nonce is already
\* mined; it is Underpriced or AlreadyKnown when the other request's
\* transaction was accepted and not mined.
C15_SameNonceNeverBothOk ==
    \A r1 \in Reqs : \A r2 \in Reqs \ {r1} :
        SameNonceBothSent(r1, r2) =>
            /\ ~(result[r1].status = "ok" /\ result[r2].status = "ok")
            /\ (Ended(r1) /\ Ended(r2)) =>
                  \E r \in {r1, r2} :
                      Failed(r, NonceConflicts \cup {"ConfirmationTimeout",
                                                     "RpcUnavailable", "InsufficientFunds"})
            /\ Failed(r2, {"NonceTooLow"}) => chainCount > nonce[r2]
            /\ Failed(r2, {"Underpriced", "AlreadyKnown"}) =>
                  Broadcast(r1) /\ ~Broadcast(r2)

\* Both requests broadcast with the same nonce; the first is mined and
\* answered ok, the second is refused with NonceTooLow
C15_Witness ==
    \E r1 \in Reqs : \E r2 \in Reqs \ {r1} :
        /\ SameNonceBothSent(r1, r2)
        /\ result[r1].status = "ok" /\ Failed(r2, {"NonceTooLow"})

\* Two requests hold the same nonce and are about to broadcast, nothing
\* having been broadcast yet
C15_SameNonceBeforeBroadcast ==
    \E r1 \in Reqs : \E r2 \in Reqs \ {r1} :
        /\ nonce[r1] >= 0 /\ nonce[r1] = nonce[r2]
        /\ pc[r1] = "send" /\ pc[r2] = "send"
        /\ broadcastLog = <<>>
----------------------------------------------------------------------------
\* C16: the account's nonce advances monotonically.  The nonces of the
\* transactions the node accepted are strictly increasing in the order of
\* broadcast, and a request that acquires its nonce after another request's
\* accepted broadcast, mined or not, gets a strictly greater nonce.
C16_NonceStrictlyIncreasing ==
    /\ [](\A i \in DOMAIN broadcastLog : \A j \in DOMAIN broadcastLog :
             i < j => broadcastLog[i].tx.nonce < broadcastLog[j].tx.nonce)
    /\ [][\A r \in Reqs :
             nonce'[r] # nonce[r] =>
                 \A i \in DOMAIN broadcastLog : nonce'[r] > broadcastLog[i].tx.nonce]_vars

\* First half of C16 alone: the accepted transactions in order of broadcast
C16_BroadcastOrderIncreasing ==
    \A i \in DOMAIN broadcastLog : \A j \in DOMAIN broadcastLog :
        i < j => broadcastLog[i].tx.nonce < broadcastLog[j].tx.nonce

\* Second half of C16 alone: a nonce acquired after an accepted broadcast
C16_AcquiredAfterBroadcastIsGreater ==
    [][\A r \in Reqs :
          nonce'[r] # nonce[r] =>
              \A i \in DOMAIN broadcastLog : nonce'[r] > broadcastLog[i].tx.nonce]_vars
----------------------------------------------------------------------------
\* C17: the nonce comes from the chain, with nothing cached across requests.
\* The nonce in a request's transaction is the value its own nonce query
\* returned; that value is the chain's transaction count at the moment of the
\* query, and it is set only by the step that makes the query, once per
\* request.
C17_NonceFromOwnQuery ==
    /\ [](\A r \in Reqs :
             /\ tx[r] # NoTx => tx[r].nonce = nonce[r]
             /\ nonce[r] # -1 => Count(calls[r], "get_transaction_count") = 1)
    /\ [][\A r \in Reqs :
             nonce'[r] # nonce[r] =>
                 /\ nonce'[r] = chainCount
                 /\ calls'[r] = Append(calls[r], "get_transaction_count")]_vars

\* After one request was mined and answered, another request built its
\* transaction with the new count
C17_Witness ==
    \E r1 \in Reqs : \E r2 \in Reqs \ {r1} :
        /\ result[r1].status = "ok" /\ tx[r1].nonce = 0
        /\ tx[r2] # NoTx /\ tx[r2].nonce = 1 /\ chainCount = 1
----------------------------------------------------------------------------
\* C18: the archive upload is attempted at most once per request and not
\* retried.  No request sends more than one POST; once its archive step has
\* returned a request sends none; after a POST that failed (or answered
\* without a hash) the request has sent exactly one, holds the empty cid and
\* went on to the nonce query, and its transaction carries the empty cid.
C18_ArchiveAtMostOnce ==
    /\ [](\A r \in Reqs :
             /\ Count(calls[r], "http_post") <= 1
             /\ archResp[r] \in {"error", "nohash"} =>
                   /\ Count(calls[r], "http_post") = 1
                   /\ cid[r] = Str(<<>>)
                   /\ pc[r] = "nonce" \/ Submitted(r)
                   /\ tx[r] # NoTx => tx[r].cid = Str(<<>>))
    /\ [][\A r \in Reqs :
             Archived(r) =>
                 /\ archResp'[r] = archResp[r]
                 /\ Count(calls'[r], "http_post") = Count(calls[r], "http_post")]_vars

\* A request whose one upload failed was mined and answered ok with the
\* empty cid
C18_Witness ==
    \E r \in Reqs :
        /\ archResp[r] = "error" /\ Count(calls[r], "http_post") = 1
        /\ result[r].status = "ok" /\ result[r].cid = Str(<<>>)
----------------------------------------------------------------------------
\* The contract-call arguments of t are those of r's own payload and of r's
\* own archive result
OwnArguments(r, t) ==
    /\ t.deviceId = Get(data[r].device_id, DefaultDevice)
    /\ t.temperatureTimes10 = Times10(data[r].temperature.v[1])
    /\ t.humidityTimes10 = Times10(data[r].humidity.v[1])
    /\ t.timestampMs = data[r].timestamp_ms.v[1]
    /\ t.cid = OrEmpty(Returned(r))

\* C19: request data is never mixed between requests.  For every request
\* answered ok, the transaction named in its response is the one the node
\* accepted from that request, its arguments come from the request's own
\* payload and archive result, the block is that of a receipt of this
\* transaction, and the cid of the response is the cid of the contract call.
C19_OwnDataOnly ==
    \A r \in Reqs :
        result[r].status = "ok" =>
            LET t == result[r].tx_hash IN
            /\ t = tx[r]
            /\ OwnArguments(r, t)
            /\ \E i \in DOMAIN broadcastLog : broadcastLog[i] = [req |-> r, tx |-> t]
            /\ \E rc \in ReceiptOf(t) : rc.blockNumber = result[r].block
            /\ result[r].cid = t.cid

\* Two requests with different payloads were both answered ok
C19_Witness ==
    \E r1 \in Reqs : \E r2 \in Reqs \ {r1} :
        /\ result[r1].status = "ok" /\ result[r2].status = "ok"
        /\ data[r1] # data[r2]
        /\ result[r1].tx_hash.temperatureTimes10 # result[r2].tx_hash.temperatureTimes10
----------------------------------------------------------------------------
\* C20: a success response depends on a receipt being obtained, not on the
\* receipt's status.  When a waiting request leaves its wait and the receipt
\* of its transaction exists, it answers ok with the receipt's block, whether
\* the receipt's status is 1 or 0 (only a poll that cannot reach the node
\* fails); every ok answer has a receipt, of either status.
C20_OkWhateverReceiptStatus ==
    /\ [](\A r \in Reqs :
             result[r].status = "ok" =>
                 \E rc \in ReceiptOf(result[r].tx_hash) :
                     rc.blockNumber = result[r].block /\ rc.status \in {0, 1})
    /\ [][\A r \in Reqs :
             (pc[r] = "wait" /\ pc'[r] # "wait" /\ ReceiptOf(tx_hash[r]) # {}) =>
                 \/ /\ result'[r].status = "ok"
                    /\ \E rc \in ReceiptOf(tx_hash[r]) : result'[r].block = rc.blockNumber
                 \/ /\ result'[r].status = "error"
                    /\ result'[r].error = "RpcUnavailable"]_vars

\* A request was answered ok although the receipt of its transaction reports
\* that the call reverted
C20_Witness ==
    \E r \in Reqs :
        /\ result[r].status = "ok"
        /\ \E rc \in ReceiptOf(result[r].tx_hash) : rc.status = 0
====
